---- MODULE Spec2Model ----
(***************************************************************************)
(* A model of s3transfer/processpool.py: the ProcessPoolDownloader facade, *)
(* the TransferMonitor with its per-transfer TransferState, the            *)
(* GetObjectSubmitter process, the GetObjectWorker processes and the two   *)
(* multiprocessing queues that connect them.                               *)
(*                                                                         *)
(* Spec is the downloader with one caller thread.  In it every call on the *)
(* TransferMonitor proxy is one step; the steps of different processes     *)
(* interleave freely.  Work that touches only a process's own data or the  *)
(* file of the transfer it is handling (S3 calls, the file system) is a    *)
(* step of its own wherever its outcome is an input.                       *)
(*                                                                         *)
(* SpecMonitor is the manager process that hosts the TransferMonitor, with *)
(* the threads that serve the calls of the other processes, at the steps   *)
(* at which those threads interleave.  SpecCallers is download_file called *)
(* from several threads of the caller's process.  SpecQueues is the        *)
(* downloader with queues of a small maxsize, and SpecLive the open        *)
(* downloader; in both the processes go on taking steps (weak fairness).   *)
(***************************************************************************)
EXTENDS Integers, Sequences, FiniteSets, TLC

\* ------------------------------------------------------------------ bounds
\* download_file calls made on the downloader
MaxTransfers == 1
\* largest object size, in bytes
MaxSize == 2
\* download_file calls each of the caller's threads makes (SpecCallers)
MaxCalls == 2
\* the maxsize of the two queues where the queues are to fill up
\* (SpecQueues)
MaxQueued == 1

\* ---------------------------------------------------------------- constants
\* GetObjectWorker._MAX_ATTEMPTS
_MAX_ATTEMPTS == 5
\* multiprocessing.Queue(1000)
QueueCapacity == 1000

\* SHUTDOWN_SIGNAL = 'SHUTDOWN': a queue entry that is no request and no job
SHUTDOWN_SIGNAL == [signal |-> "SHUTDOWN"]

\* The worker processes (ProcessTransferConfig.max_request_processes of them)
Workers == {"w1", "w2"}
\* The configurations of ProcessTransferConfig the model is run for
Thresholds == {0, 2}
Chunksizes == {1, 2}

TransferIds == 0 .. (MaxTransfers - 1)
Sizes == 0 .. MaxSize

\* ---------------------------------------------------------------- exceptions
\* An exception is a record: its type and, for RetriesExceededError, the
\* exception it wraps.
Exc(type, cause) == [type |-> type, cause |-> cause]
None == Exc("None", "None")
CancelledError == Exc("CancelledError", "None")
ClientError == Exc("ClientError", "None")
OSError == Exc("OSError", "None")
KeyboardInterrupt == Exc("KeyboardInterrupt", "None")
\* s3transfer.utils.S3_RETRYABLE_DOWNLOAD_ERRORS (two of its members)
S3_RETRYABLE_DOWNLOAD_ERRORS == {"ConnectionError", "ReadTimeoutError"}
RetriesExceededError(last) == Exc("RetriesExceededError", last)

\* ---------------------------------------------------------------- extra_args
\* extra_args is a dict: a function from its keys to their values
NoArgs == [k \in {} |-> "none"]
ExtraArgsChoices == {NoArgs, [VersionId |-> "v1"]}

\* s3transfer.constants.ALLOWED_DOWNLOAD_ARGS
ALLOWED_DOWNLOAD_ARGS ==
    {"VersionId", "SSECustomerAlgorithm", "SSECustomerKey",
     "SSECustomerKeyMD5", "RequestPayer"}

\* extra_args with a key that is not allowed
InvalidExtraArgsChoices ==
    {[ACL |-> "private"],
     [VersionId |-> "v1", Range |-> [start |-> 0, end |-> 0]]}

\* dict.update: the entries of `other` replace those of `d`
DictUpdate(d, other) == other @@ d

VARIABLES
    multipart_threshold,  \* ProcessTransferConfig.multipart_threshold
    multipart_chunksize,  \* ProcessTransferConfig.multipart_chunksize
    queue_maxsize,        \* the maxsize of the two multiprocessing.Queue
    started,              \* ProcessPoolDownloader._started
    id_counter,           \* ProcessPoolDownloader._id_counter
    download_request_queue, \* ProcessPoolDownloader._download_request_queue
    worker_queue,         \* ProcessPoolDownloader._worker_queue
    transfer_states,      \* TransferMonitor._transfer_states
    futures,              \* the ProcessPoolTransferFuture of each download_file call
    caller,               \* where the caller of the facade is (shutdown steps),
                          \* what its last download_file call raised and
                          \* what its last result() call ended in
    submitter,            \* the GetObjectSubmitter process
    workers,              \* the GetObjectWorker processes
    files,                \* the file system: temp and destination file per transfer
    hist,                 \* per transfer: what has happened to it (observation only)
    manager,              \* the manager process that hosts the TransferMonitor:
                          \* its TransferState objects, the monitor's
                          \* _transfer_states and the threads serving calls
    callers               \* the threads of the caller's process that are in
                          \* download_file

vars == <<multipart_threshold, multipart_chunksize, queue_maxsize, started,
          id_counter,
          download_request_queue, worker_queue, transfer_states, futures,
          caller, submitter, workers, files, hist, manager, callers>>

config == <<multipart_threshold, multipart_chunksize, queue_maxsize>>


\* ------------------------------------------------------------ TransferState
\* TransferState.__init__
TransferState == [done |-> FALSE, exception |-> None, jobs_to_complete |-> 0]

\* TransferState.set_done: Event.set()
set_done(state) == [state EXCEPT !.done = TRUE]

\* A decrement that counts a job twice
decrement_jobs_to_complete_twice(state) ==
    [state EXCEPT !.jobs_to_complete = state.jobs_to_complete - 2]

\* TransferState.decrement_jobs_to_complete (under _job_lock)
decrement_jobs_to_complete(state) ==
    [state EXCEPT !.jobs_to_complete = state.jobs_to_complete - 1]

\* ---------------------------------------------------------- TransferMonitor
\* Each operator gives the monitor's table after the call (and, for the
\* calls that return something, a second operator gives the value returned).
is_done(ts, transfer_id) == ts[transfer_id].done

notify_done(ts, transfer_id) ==
    [ts EXCEPT ![transfer_id] = set_done(ts[transfer_id])]

\* A notify_exception that keeps the failure recorded first
notify_exception_first(ts, transfer_id, exception) ==
    IF ts[transfer_id].exception # None THEN ts
    ELSE [ts EXCEPT ![transfer_id].exception = exception]

notify_exception(ts, transfer_id, exception) ==
    [ts EXCEPT ![transfer_id].exception = exception]

get_exception(ts, transfer_id) == ts[transfer_id].exception

notify_expected_jobs_to_complete(ts, transfer_id, num_jobs) ==
    [ts EXCEPT ![transfer_id].jobs_to_complete = num_jobs]

notify_job_complete(ts, transfer_id) ==
    [ts EXCEPT ![transfer_id] = decrement_jobs_to_complete(ts[transfer_id])]

\* A poll_for_result that does not wait for done
poll_for_result_no_wait(ts, transfer_id) ==
    IF ts[transfer_id].exception # None
    THEN [kind |-> "raised", exception |-> ts[transfer_id].exception]
    ELSE [kind |-> "returned", exception |-> None]

\* TransferMonitor.poll_for_result: blocks until done, then raises the
\* recorded exception or returns None
poll_for_result(ts, transfer_id) ==
    IF ~ts[transfer_id].done THEN [kind |-> "blocked", exception |-> None]
    ELSE IF ts[transfer_id].exception # None
         THEN [kind |-> "raised", exception |-> ts[transfer_id].exception]
         ELSE [kind |-> "returned", exception |-> None]

\* --------------------------------------------------------------- utilities
\* calculate_num_parts that rounds down
calculate_num_parts_floor(size, part_size) == size \div part_size

\* s3transfer.utils.calculate_num_parts: ceil(size / part_size)
calculate_num_parts(size, part_size) == (size + part_size - 1) \div part_size

\* s3transfer.utils.calculate_range_parameter(part_size, part_index,
\* num_parts): the inclusive byte range of a part; the last part's range has
\* no upper end (end = -1: up to the last byte of the object)
calculate_range_parameter(part_size, part_index, num_parts) ==
    [start |-> part_size * part_index,
     end |-> IF part_index = num_parts - 1
             THEN -1
             ELSE part_size * part_index + part_size - 1]

\* ------------------------------------------------------------------ records
NoRequest == [transfer_id |-> -1, extra_args |-> NoArgs, expected_size |-> -1]
NoJob == [transfer_id |-> -1, extra_args |-> NoArgs, offset |-> -1]

\* DownloadFileRequest (bucket, key and filename are those of the transfer:
\* each transfer downloads to a file name of its own); expected_size -1 is
\* None
DownloadFileRequest(transfer_id, extra_args, expected_size) ==
    [transfer_id |-> transfer_id, extra_args |-> extra_args,
     expected_size |-> expected_size]

\* ProcessPoolTransferFuture: its meta holds the transfer id and the call's
\* arguments
ProcessPoolTransferFuture(transfer_id, extra_args, expected_size) ==
    [transfer_id |-> transfer_id, extra_args |-> extra_args,
     expected_size |-> expected_size]

\* GetObjectJob (temp_filename and filename are those of the transfer)
GetObjectJob(transfer_id, extra_args, offset) ==
    [transfer_id |-> transfer_id, extra_args |-> extra_args, offset |-> offset]

\* No result() call has ended
NoResult == [transfer_id |-> -1, kind |-> "none", exception |-> None]

IdleSubmitter ==
    [pc |-> "idle", request |-> NoRequest, size |-> -1, num_parts |-> 0,
     i |-> 0, exception |-> None]

IdleWorker ==
    [pc |-> "idle", job |-> NoJob, attempts |-> 0, last_exception |-> "None",
     raised |-> "None", exception |-> None, remaining |-> -1]

NoHistory ==
    [size |-> -1,          \* the size the submitter resolved
     registered |-> -1,    \* the count given to notify_expected_jobs_to_complete
     enqueued |-> 0,       \* jobs put on the worker queue
     completed |-> 0,      \* notify_job_complete calls
     succeeded |-> 0,      \* jobs whose range read succeeded
     failed |-> None,      \* the failure of the first job that failed permanently
     finalized |-> 0,      \* executions of _finalize_download
     cancelled |-> "no",   \* the first cancel(): "no", "early" (before
                           \* _finalize_download read the failure), "late"
                           \* (after that, before done)
     rename_failed |-> FALSE]

\* The caller's threads that call download_file at the same time
CallerThreads == {"c1", "c2"}

\* A caller thread that is not in download_file: the calls it has made and
\* the transfer ids of the request it put and of the future it was given
IdleCaller ==
    [pc |-> "idle", calls |-> 0, extra_args |-> NoArgs, request_id |-> -1,
     transfer_id |-> -1, loaded |-> -1, returned |-> <<>>]

\* The processes that call the monitor through a proxy, each over a
\* connection of its own that the manager serves in a thread of its own
MonitorClients == {"caller", "submitter", "w1"}

\* A serving thread that has no call to serve
IdleThread ==
    [pc |-> "idle", op |-> "none", transfer_id |-> -1, exception |-> None,
     num_jobs |-> 0, ref |-> 0, second |-> FALSE]

\* TransferMonitorManager, started: no TransferState object exists, 
\* _transfer_states is empty (table gives 0 for a key that is not in it),
\* and what the submitter has done for each transfer (phase)
TransferMonitorManager ==
    [objects |-> <<>>,
     table |-> [t \in TransferIds |-> 0],
     made |-> [t \in TransferIds |-> 0],
     phase |-> [t \in TransferIds |-> "new"],
     threads |-> [c \in MonitorClients |-> IdleThread]]

\* ProcessPoolDownloader.__init__, with queues of the given maxsize
InitWith(maxsize) ==
    /\ multipart_threshold \in Thresholds
    /\ multipart_chunksize \in Chunksizes
    /\ queue_maxsize = maxsize
    /\ started = FALSE
    /\ id_counter = 0
    /\ download_request_queue = <<>>
    /\ worker_queue = <<>>
    /\ transfer_states = [t \in TransferIds |-> TransferState]
    /\ futures = <<>>
    /\ caller = [pc |-> "open", i |-> 0, raised |-> "None",
                 result |-> NoResult]
    /\ submitter = IdleSubmitter
    /\ workers = [w \in Workers |-> IdleWorker]
    /\ files = [t \in TransferIds |-> [temp |-> FALSE, dest |-> FALSE]]
    /\ hist = [t \in TransferIds |-> NoHistory]
    /\ manager = TransferMonitorManager
    /\ callers = [c \in CallerThreads |-> IdleCaller]

Init == InitWith(QueueCapacity)


\* ------------------------------------------------- ProcessPoolDownloader
\* ProcessPoolDownloader._start: the monitor's manager, the submitter and the
\* workers are started
StartedSubmitter == [IdleSubmitter EXCEPT !.pc = "get"]
StartedWorker == [IdleWorker EXCEPT !.pc = "get"]

\* A validation that lets every key through
_validate_all_known_args_none(provided) == TRUE

\* ProcessPoolDownloader._validate_all_known_args: TRUE when it returns,
\* FALSE when it raises ValueError
_validate_all_known_args(provided) ==
    \A kwarg \in DOMAIN provided : kwarg \in ALLOWED_DOWNLOAD_ARGS

\* ProcessPoolDownloader.download_file, when the extra_args are valid:
\* _start_if_needed, the request is put on the request queue, the future is
\* made for _id_counter and _id_counter is incremented
download_file(extra_args, expected_size) ==
    /\ caller.pc = "open"
    /\ id_counter < MaxTransfers
    /\ _validate_all_known_args(extra_args)
    /\ caller' = [caller EXCEPT !.raised = "None"]
    /\ Len(download_request_queue) < queue_maxsize
    /\ started' = TRUE
    /\ submitter' = IF started THEN submitter ELSE StartedSubmitter
    /\ workers' = IF started THEN workers ELSE [w \in Workers |-> StartedWorker]
    /\ download_request_queue' =
           Append(download_request_queue,
                  DownloadFileRequest(id_counter, extra_args, expected_size))
    /\ futures' = Append(futures,
                          ProcessPoolTransferFuture(id_counter, extra_args,
                                                    expected_size))
    /\ id_counter' = id_counter + 1
    /\ UNCHANGED <<config, manager, callers, worker_queue, transfer_states, files, hist>>

\* ProcessPoolDownloader.download_file, when _validate_all_known_args
\* raises: _start_if_needed has run, and the ValueError goes to the caller
download_file_raises(extra_args) ==
    /\ caller.pc = "open"
    /\ ~_validate_all_known_args(extra_args)
    /\ started' = TRUE
    /\ submitter' = IF started THEN submitter ELSE StartedSubmitter
    /\ workers' = IF started THEN workers ELSE [w \in Workers |-> StartedWorker]
    /\ caller' = [caller EXCEPT !.raised = "ValueError"]
    /\ UNCHANGED <<config, manager, callers, id_counter, download_request_queue, futures,
                   worker_queue, transfer_states, files, hist>>

\* The transfer ids of the futures the caller holds
Futures == {futures[k].transfer_id : k \in 1 .. Len(futures)}

\* The manager that hosts the monitor is running
ManagerRunning == started /\ caller.pc # "closed"

\* How a cancel() falls with respect to the transfer's finalize step
CancelKind(t) ==
    IF hist[t].cancelled # "no" THEN hist[t].cancelled
    ELSE IF transfer_states[t].done THEN "no"
    ELSE IF \E w \in Workers :
                /\ workers[w].job.transfer_id = t
                /\ workers[w].pc \in {"remove", "rename", "rename_exception",
                                      "notify_done"}
         THEN "late"
    ELSE "early"

\* ProcessPoolTransferFuture.cancel, called by the caller
cancel(t) ==
    /\ t \in Futures
    /\ ManagerRunning
    /\ transfer_states' = notify_exception(transfer_states, t, CancelledError)
    /\ hist' = [hist EXCEPT ![t].cancelled = CancelKind(t)]
    /\ UNCHANGED <<config, manager, callers, futures, started, id_counter, download_request_queue,
                   worker_queue, caller, submitter, workers, files>>

\* What a result() call on transfer t ended in
Result(t, kind, exception) ==
    [transfer_id |-> t, kind |-> kind, exception |-> exception]

\* ProcessPoolTransferFuture.result: what poll_for_result returns or raises
\* is returned or raised to the caller
result(t) ==
    /\ t \in Futures
    /\ ManagerRunning
    /\ poll_for_result(transfer_states, t).kind # "blocked"
    /\ caller' = [caller EXCEPT
                       !.result =
                           Result(t, poll_for_result(transfer_states, t).kind,
                                  poll_for_result(transfer_states, t).exception)]
    /\ UNCHANGED <<config, manager, callers, futures, started, id_counter, download_request_queue,
                   worker_queue, transfer_states, submitter, workers,
                   files, hist>>

\* ProcessPoolTransferFuture.result, the except clause: KeyboardInterrupt is
\* raised in the caller while it is in poll_for_result; cancel() is called
\* and the KeyboardInterrupt is raised again
result_interrupted(t) ==
    /\ t \in Futures
    /\ ManagerRunning
    /\ transfer_states' = notify_exception(transfer_states, t, CancelledError)
    /\ hist' = [hist EXCEPT ![t].cancelled = CancelKind(t)]
    /\ caller' = [caller EXCEPT
                       !.result = Result(t, "raised", KeyboardInterrupt)]
    /\ UNCHANGED <<config, manager, callers, futures, started, id_counter, download_request_queue,
                   worker_queue, submitter, workers, files>>

\* ProcessPoolDownloader._shutdown_submitter: the sentinel is put on the
\* request queue, then the submitter is joined; _submitter is None when the
\* downloader was never started, and the join raises AttributeError
_shutdown_submitter_put ==
    /\ caller.pc = "open"
    /\ Len(download_request_queue) < queue_maxsize
    /\ download_request_queue' = Append(download_request_queue, SHUTDOWN_SIGNAL)
    /\ caller' = [caller EXCEPT
                       !.pc = IF started THEN "join_submitter" ELSE "error"]
    /\ UNCHANGED <<config, manager, callers, futures, started, id_counter, worker_queue, transfer_states,
                   submitter, workers, files, hist>>

\* A shutdown that does not wait for the submitter to end
_shutdown_submitter_no_join ==
    /\ caller.pc = "join_submitter"
    /\ caller' = [caller EXCEPT !.pc = "put_workers", !.i = 0]
    /\ UNCHANGED <<config, manager, callers, futures, started, id_counter,
                   download_request_queue, worker_queue, transfer_states,
                   submitter, workers, files, hist>>

_shutdown_submitter_join ==
    /\ caller.pc = "join_submitter"
    /\ submitter.pc = "exited"
    /\ caller' = [caller EXCEPT !.pc = "put_workers", !.i = 0]
    /\ UNCHANGED <<config, manager, callers, futures, started, id_counter, download_request_queue,
                   worker_queue, transfer_states, submitter, workers,
                   files, hist>>

\* ProcessPoolDownloader._shutdown_get_object_workers: one sentinel per
\* worker, then every worker is joined
_shutdown_get_object_workers_put ==
    /\ caller.pc = "put_workers"
    /\ caller.i < Cardinality(Workers)
    /\ Len(worker_queue) < queue_maxsize
    /\ worker_queue' = Append(worker_queue, SHUTDOWN_SIGNAL)
    /\ caller' = [caller EXCEPT !.i = caller.i + 1]
    /\ UNCHANGED <<config, manager, callers, futures, started, id_counter, download_request_queue,
                   transfer_states, submitter, workers, files, hist>>

_shutdown_get_object_workers_join ==
    /\ caller.pc = "put_workers"
    /\ caller.i = Cardinality(Workers)
    /\ \A w \in Workers : workers[w].pc = "exited"
    /\ caller' = [caller EXCEPT !.pc = "shutdown_manager", !.i = 0]
    /\ UNCHANGED <<config, manager, callers, futures, started, id_counter, download_request_queue,
                   worker_queue, transfer_states, submitter, workers,
                   files, hist>>

\* ProcessPoolDownloader._shutdown_transfer_monitor_manager; shutdown()
\* returns after it
_shutdown_transfer_monitor_manager ==
    /\ caller.pc = "shutdown_manager"
    /\ caller' = [caller EXCEPT !.pc = "closed", !.i = 0]
    /\ UNCHANGED <<config, manager, callers, futures, started, id_counter, download_request_queue,
                   worker_queue, transfer_states, submitter, workers,
                   files, hist>>


\* ------------------------------------------------------ GetObjectSubmitter
\* GetObjectSubmitter.run: the next entry of the request queue; the sentinel
\* ends the process
SubmitterGet ==
    /\ submitter.pc = "get"
    /\ download_request_queue # <<>>
    /\ download_request_queue' = Tail(download_request_queue)
    /\ submitter' =
           IF Head(download_request_queue) = SHUTDOWN_SIGNAL
           THEN [IdleSubmitter EXCEPT !.pc = "exited"]
           ELSE [IdleSubmitter EXCEPT !.pc = "submit",
                                      !.request = Head(download_request_queue)]
    /\ UNCHANGED <<config, manager, callers, futures, started, id_counter, worker_queue, transfer_states,
                   caller, workers, files, hist>>

\* GetObjectSubmitter._get_size: the expected size when given, else what
\* HeadObject answers (ok: it answers with a size; else it raises)
SizeAnswers(request) ==
    IF request.expected_size # -1 THEN {request.expected_size} ELSE Sizes

\* GetObjectSubmitter._submit_get_object_jobs: the size is resolved and the
\* temp file allocated, and the request is a single or a ranged download
SubmitterResolve ==
    /\ submitter.pc = "submit"
    /\ \E size \in SizeAnswers(submitter.request) :
           /\ submitter' =
                  [submitter EXCEPT
                       !.size = size,
                       !.pc = IF size < multipart_threshold
                              THEN "single" ELSE "ranged"]
           /\ files' = [files EXCEPT ![submitter.request.transfer_id].temp = TRUE]
           /\ hist' = [hist EXCEPT ![submitter.request.transfer_id].size = size]
    /\ UNCHANGED <<config, manager, callers, futures, started, id_counter, download_request_queue,
                   worker_queue, transfer_states, caller, workers>>

\* _get_size raises (HeadObject fails) or _allocate_temp_file raises (the
\* temp file is not left behind): run() catches the exception
SubmitterResolveFails ==
    /\ submitter.pc = "submit"
    /\ \E e \in {ClientError, OSError} :
           /\ e = ClientError => submitter.request.expected_size = -1
           /\ submitter' = [submitter EXCEPT !.exception = e,
                                             !.pc = "notify_exception"]
    /\ UNCHANGED <<config, manager, callers, futures, started, id_counter, download_request_queue,
                   worker_queue, transfer_states, caller, workers,
                   files, hist>>

\* GetObjectSubmitter.run, the except clause: notify_exception ...
SubmitterNotifyException ==
    /\ submitter.pc = "notify_exception"
    /\ transfer_states' =
           notify_exception(transfer_states, submitter.request.transfer_id,
                            submitter.exception)
    /\ submitter' = [submitter EXCEPT !.pc = "notify_done"]
    /\ UNCHANGED <<config, manager, callers, futures, started, id_counter, download_request_queue,
                   worker_queue, caller, workers, files, hist>>

\* A submitter that ends after the failure of a request
SubmitterNotifyDoneExits ==
    /\ submitter.pc = "notify_done"
    /\ transfer_states' =
           notify_done(transfer_states, submitter.request.transfer_id)
    /\ submitter' = [IdleSubmitter EXCEPT !.pc = "exited"]
    /\ UNCHANGED <<config, manager, callers, futures, started, id_counter, download_request_queue,
                   worker_queue, caller, workers, files, hist>>

\* ... and then notify_done
SubmitterNotifyDone ==
    /\ submitter.pc = "notify_done"
    /\ transfer_states' =
           notify_done(transfer_states, submitter.request.transfer_id)
    /\ submitter' = [IdleSubmitter EXCEPT !.pc = "get"]
    /\ UNCHANGED <<config, manager, callers, futures, started, id_counter, download_request_queue,
                   worker_queue, caller, workers, files, hist>>

\* The jobs the submitter puts on the worker queue for the request it
\* holds: one, or range(num_parts)
NumJobs ==
    IF submitter.pc = "single" THEN 1
    ELSE calculate_num_parts(submitter.size, multipart_chunksize)

\* A submitter that registers one job too few for a ranged download
ExpectedJobsOffByOne(pc, num_parts) ==
    IF pc = "single" THEN 1 ELSE num_parts - 1

\* The count the submitter gives notify_expected_jobs_to_complete: 1 in
\* _submit_single_get_object_job, num_parts in _submit_ranged_get_object_jobs
ExpectedJobs(pc, num_parts) == IF pc = "single" THEN 1 ELSE num_parts

\* _submit_single_get_object_job / _submit_ranged_get_object_jobs:
\* notify_expected_jobs_to_complete
SubmitterRegister ==
    /\ submitter.pc \in {"single", "ranged"}
    /\ transfer_states' =
           notify_expected_jobs_to_complete(
               transfer_states, submitter.request.transfer_id,
               ExpectedJobs(submitter.pc, NumJobs))
    /\ hist' = [hist EXCEPT ![submitter.request.transfer_id].registered =
                                ExpectedJobs(submitter.pc, NumJobs)]
    /\ submitter' =
           IF NumJobs = 0
           THEN [IdleSubmitter EXCEPT !.pc = "get"]
           ELSE [submitter EXCEPT !.num_parts = NumJobs, !.i = 0,
                                  !.pc = IF submitter.pc = "single"
                                         THEN "single_put" ELSE "ranged_put"]
    /\ UNCHANGED <<config, manager, callers, futures, started, id_counter, download_request_queue,
                   worker_queue, caller, workers, files>>

\* A single job that asks for a byte range
SingleJobRanged(request) ==
    GetObjectJob(request.transfer_id,
                 DictUpdate([Range |-> calculate_range_parameter(1, 0, 1)],
                            request.extra_args),
                 0)

\* The job _submit_single_get_object_job makes
SingleJob(request) ==
    GetObjectJob(request.transfer_id, request.extra_args, 0)

\* The job _submit_ranged_get_object_jobs makes for part i
RangedJob(request, i, part_size, num_parts) ==
    GetObjectJob(
        request.transfer_id,
        DictUpdate([Range |-> calculate_range_parameter(part_size, i, num_parts)],
                   request.extra_args),
        i * part_size)

\* GetObjectSubmitter._submit_get_object_job: one job is put on the worker
\* queue
SubmitterPut ==
    /\ submitter.pc \in {"single_put", "ranged_put"}
    /\ Len(worker_queue) < queue_maxsize
    /\ worker_queue' =
           Append(worker_queue,
                  IF submitter.pc = "single_put"
                  THEN SingleJob(submitter.request)
                  ELSE RangedJob(submitter.request, submitter.i,
                                 multipart_chunksize, submitter.num_parts))
    /\ hist' = [hist EXCEPT ![submitter.request.transfer_id].enqueued = @ + 1]
    /\ submitter' =
           IF submitter.i + 1 = submitter.num_parts
           THEN [IdleSubmitter EXCEPT !.pc = "get"]
           ELSE [submitter EXCEPT !.i = submitter.i + 1]
    /\ UNCHANGED <<config, manager, callers, futures, started, id_counter, download_request_queue,
                   transfer_states, caller, workers, files>>


\* --------------------------------------------------------- GetObjectWorker
Tid(w) == workers[w].job.transfer_id

\* GetObjectWorker.run: the next entry of the worker queue; the sentinel
\* ends the process
WorkerGet(w) ==
    /\ workers[w].pc = "get"
    /\ worker_queue # <<>>
    /\ worker_queue' = Tail(worker_queue)
    /\ workers' =
           [workers EXCEPT ![w] =
                IF Head(worker_queue) = SHUTDOWN_SIGNAL
                THEN [IdleWorker EXCEPT !.pc = "exited"]
                ELSE [IdleWorker EXCEPT !.pc = "check",
                                        !.job = Head(worker_queue)]]
    /\ UNCHANGED <<config, manager, callers, futures, started, id_counter, download_request_queue,
                   transfer_states, caller, submitter, files, hist>>

\* A worker that runs every job it takes
WorkerCheckAlwaysRuns(w) ==
    /\ workers[w].pc = "check"
    /\ workers' = [workers EXCEPT ![w].pc = "attempt"]
    /\ UNCHANGED <<config, manager, callers, futures, started, id_counter,
                   download_request_queue, worker_queue, transfer_states,
                   caller, submitter, files, hist>>

\* GetObjectWorker.run: the job is run only if get_exception gives nothing
WorkerCheck(w) ==
    /\ workers[w].pc = "check"
    /\ workers' =
           [workers EXCEPT ![w].pc =
                IF get_exception(transfer_states, Tid(w)) = None
                THEN "attempt" ELSE "complete"]
    /\ UNCHANGED <<config, manager, callers, futures, started, id_counter, download_request_queue,
                   worker_queue, transfer_states, caller, submitter,
                   files, hist>>

\* What one attempt of _do_get_object's loop can end in: the object is read
\* and written to the temp file, a retryable error, or another exception
AttemptOutcomes == {"ok", "ClientError"} \cup S3_RETRYABLE_DOWNLOAD_ERRORS

\* A retry loop that goes round once more (i <= _MAX_ATTEMPTS)
_do_get_object_one_more(worker, outcome) ==
    IF outcome = "ok"
    THEN [worker EXCEPT !.attempts = 0, !.last_exception = "None",
                        !.pc = "complete"]
    ELSE IF outcome \in S3_RETRYABLE_DOWNLOAD_ERRORS
    THEN IF worker.attempts + 1 <= _MAX_ATTEMPTS
         THEN [worker EXCEPT !.attempts = worker.attempts + 1,
                             !.last_exception = outcome]
         ELSE [worker EXCEPT !.attempts = 0, !.last_exception = "None",
                             !.exception = RetriesExceededError(outcome),
                             !.pc = "notify_exception"]
    ELSE [worker EXCEPT !.attempts = 0, !.last_exception = "None",
                        !.exception = Exc(outcome, "None"),
                        !.pc = "notify_exception"]

\* A retry loop that retries whatever the attempt raises
_do_get_object_retry_all(worker, outcome) ==
    IF outcome = "ok"
    THEN [worker EXCEPT !.attempts = 0, !.last_exception = "None",
                        !.pc = "complete"]
    ELSE IF worker.attempts + 1 < _MAX_ATTEMPTS
         THEN [worker EXCEPT !.attempts = worker.attempts + 1,
                             !.last_exception = outcome]
         ELSE [worker EXCEPT !.attempts = 0, !.last_exception = "None",
                             !.exception = RetriesExceededError(outcome),
                             !.pc = "notify_exception"]

\* GetObjectWorker._do_get_object, one iteration of its loop, given how the
\* attempt ends: the worker after it (attempts is the loop's i,
\* last_exception its last_exception)
_do_get_object(worker, outcome) ==
    IF outcome = "ok"
    THEN [worker EXCEPT !.attempts = 0, !.last_exception = "None",
                        !.pc = "complete"]
    ELSE IF outcome \in S3_RETRYABLE_DOWNLOAD_ERRORS
    THEN IF worker.attempts + 1 < _MAX_ATTEMPTS
         THEN [worker EXCEPT !.attempts = worker.attempts + 1,
                             !.last_exception = outcome]
         ELSE [worker EXCEPT !.attempts = 0, !.last_exception = "None",
                             !.exception = RetriesExceededError(outcome),
                             !.pc = "notify_exception"]
    ELSE [worker EXCEPT !.attempts = 0, !.last_exception = "None",
                        !.exception = Exc(outcome, "None"),
                        !.pc = "notify_exception"]

WorkerAttempt(w) ==
    /\ workers[w].pc = "attempt"
    /\ \E outcome \in AttemptOutcomes :
           /\ workers' =
                  [workers EXCEPT ![w] =
                       [_do_get_object(workers[w], outcome) EXCEPT
                            !.raised = IF outcome = "ok" THEN "None" ELSE outcome]]
           /\ hist' = IF outcome = "ok"
                      THEN [hist EXCEPT ![Tid(w)].succeeded = @ + 1]
                      ELSE hist
    /\ UNCHANGED <<config, manager, callers, futures, started, id_counter, download_request_queue,
                   worker_queue, transfer_states, caller, submitter,
                   files>>

\* GetObjectWorker._run_get_object_job, the except clause: notify_exception
WorkerNotifyException(w) ==
    /\ workers[w].pc = "notify_exception"
    /\ transfer_states' =
           notify_exception(transfer_states, Tid(w), workers[w].exception)
    /\ hist' = [hist EXCEPT ![Tid(w)].failed =
                           IF @ = None THEN workers[w].exception ELSE @]
    /\ workers' = [workers EXCEPT ![w].pc = "complete", ![w].raised = "None"]
    /\ UNCHANGED <<config, manager, callers, futures, started, id_counter, download_request_queue,
                   worker_queue, caller, submitter, files>>

\* A worker that finalizes after every job (the test of `remaining` left out)
AfterJobCompleteAlways(worker, remaining) ==
    [IdleWorker EXCEPT !.pc = "finalize", !.job = worker.job,
                       !.remaining = remaining]

\* A worker that finalizes one job early (remaining <= 1 for remaining = 0)
AfterJobCompleteAtMostOne(worker, remaining) ==
    IF remaining <= 1
    THEN [IdleWorker EXCEPT !.pc = "finalize", !.job = worker.job,
                            !.remaining = remaining]
    ELSE [IdleWorker EXCEPT !.pc = "get"]

\* GetObjectWorker.run: notify_job_complete; the worker that is given zero
\* goes on to finalize the download
AfterJobComplete(worker, remaining) ==
    IF remaining = 0
    THEN [IdleWorker EXCEPT !.pc = "finalize", !.job = worker.job,
                            !.remaining = remaining]
    ELSE [IdleWorker EXCEPT !.pc = "get"]

WorkerComplete(w) ==
    /\ workers[w].pc = "complete"
    /\ transfer_states' = notify_job_complete(transfer_states, Tid(w))
    /\ workers' =
           [workers EXCEPT ![w] =
                AfterJobComplete(workers[w],
                                 transfer_states'[Tid(w)].jobs_to_complete)]
    /\ hist' = [hist EXCEPT
                    ![Tid(w)].completed = @ + 1,
                    ![Tid(w)].finalized =
                        IF workers'[w].pc = "finalize" THEN @ + 1 ELSE @]
    /\ UNCHANGED <<config, manager, callers, futures, started, id_counter, download_request_queue,
                   worker_queue, caller, submitter, files>>

\* A finalize step with the test of the failure inverted
_finalize_download_inverted(worker, exception) ==
    [worker EXCEPT !.pc = IF exception = None THEN "remove" ELSE "rename"]

\* A finalize step that removes the temp file whatever get_exception gives
_finalize_download_remove(worker, exception) ==
    [worker EXCEPT !.pc = "remove"]

\* GetObjectWorker._finalize_download: get_exception decides between
\* removing the temp file and renaming it
_finalize_download(worker, exception) ==
    [worker EXCEPT !.pc = IF exception # None THEN "remove" ELSE "rename"]

WorkerFinalize(w) ==
    /\ workers[w].pc = "finalize"
    /\ workers' =
           [workers EXCEPT ![w] =
                _finalize_download(workers[w],
                                   get_exception(transfer_states, Tid(w)))]
    /\ UNCHANGED <<config, manager, callers, futures, started, id_counter, download_request_queue,
                   worker_queue, transfer_states, caller, submitter,
                   files, hist>>

\* OSUtils.remove_file(temp_filename)
remove_file(file) == [file EXCEPT !.temp = FALSE]

\* OSUtils.rename_file(temp_filename, filename), when it succeeds
rename_file(file) == [temp |-> FALSE, dest |-> file.temp]

WorkerRemove(w) ==
    /\ workers[w].pc = "remove"
    /\ files' = [files EXCEPT ![Tid(w)] = remove_file(files[Tid(w)])]
    /\ workers' = [workers EXCEPT ![w].pc = "notify_done"]
    /\ UNCHANGED <<config, manager, callers, futures, started, id_counter, download_request_queue,
                   worker_queue, transfer_states, caller, submitter,
                   hist>>

\* GetObjectWorker._do_file_rename: the rename succeeds
WorkerRename(w) ==
    /\ workers[w].pc = "rename"
    /\ files' = [files EXCEPT ![Tid(w)] = rename_file(files[Tid(w)])]
    /\ workers' = [workers EXCEPT ![w].pc = "notify_done"]
    /\ UNCHANGED <<config, manager, callers, futures, started, id_counter, download_request_queue,
                   worker_queue, transfer_states, caller, submitter,
                   hist>>

\* GetObjectWorker._do_file_rename: the rename raises; the exception is
\* caught and handed to notify_exception, and then the temp file is removed
WorkerRenameFails(w) ==
    /\ workers[w].pc = "rename"
    /\ workers' = [workers EXCEPT ![w].pc = "rename_exception",
                                  ![w].exception = OSError]
    /\ hist' = [hist EXCEPT ![Tid(w)].rename_failed = TRUE]
    /\ UNCHANGED <<config, manager, callers, futures, started, id_counter, download_request_queue,
                   worker_queue, transfer_states, caller, submitter,
                   files>>

WorkerRenameException(w) ==
    /\ workers[w].pc = "rename_exception"
    /\ transfer_states' =
           notify_exception(transfer_states, Tid(w), workers[w].exception)
    /\ workers' = [workers EXCEPT ![w].pc = "remove"]
    /\ UNCHANGED <<config, manager, callers, futures, started, id_counter, download_request_queue,
                   worker_queue, caller, submitter, files, hist>>

\* GetObjectWorker._finalize_download: notify_done
WorkerNotifyDone(w) ==
    /\ workers[w].pc = "notify_done"
    /\ transfer_states' = notify_done(transfer_states, Tid(w))
    /\ workers' = [workers EXCEPT ![w] = [IdleWorker EXCEPT !.pc = "get"]]
    /\ UNCHANGED <<config, manager, callers, futures, started, id_counter, download_request_queue,
                   worker_queue, caller, submitter, files, hist>>

\* ------------------------------------------------------------ specification
Next ==
    \/ \E extra_args \in ExtraArgsChoices \cup InvalidExtraArgsChoices,
          expected_size \in Sizes \cup {-1} :
           download_file(extra_args, expected_size)
    \/ \E extra_args \in ExtraArgsChoices \cup InvalidExtraArgsChoices :
           download_file_raises(extra_args)
    \/ \E t \in TransferIds : cancel(t)
    \/ \E t \in TransferIds : result(t)
    \/ \E t \in TransferIds : result_interrupted(t)
    \/ _shutdown_submitter_put
    \/ _shutdown_submitter_join
    \/ _shutdown_get_object_workers_put
    \/ _shutdown_get_object_workers_join
    \/ _shutdown_transfer_monitor_manager
    \/ SubmitterGet
    \/ SubmitterResolve
    \/ SubmitterResolveFails
    \/ SubmitterNotifyException
    \/ SubmitterNotifyDone
    \/ SubmitterRegister
    \/ SubmitterPut
    \/ \E w \in Workers :
           \/ WorkerGet(w)
           \/ WorkerCheck(w)
           \/ WorkerAttempt(w)
           \/ WorkerNotifyException(w)
           \/ WorkerComplete(w)
           \/ WorkerFinalize(w)
           \/ WorkerRemove(w)
           \/ WorkerRename(w)
           \/ WorkerRenameFails(w)
           \/ WorkerRenameException(w)
           \/ WorkerNotifyDone(w)

Spec == Init /\ [][Next]_vars


\* ------------------------------------------------------------------ claims
\* The steps of _finalize_download and of what it calls
FinalizePcs ==
    {"finalize", "remove", "rename", "rename_exception", "notify_done"}

Finalizing(w, t) == Tid(w) = t /\ workers[w].pc \in FinalizePcs

\* The jobs of transfer t that a worker can see or holds
QueuedJobs(t) ==
    {k \in 1 .. Len(worker_queue) :
         /\ worker_queue[k] # SHUTDOWN_SIGNAL
         /\ worker_queue[k].transfer_id = t}

HeldBy(t) == {w \in Workers : Tid(w) = t}

\* The submitter is handling the request of transfer t
Submitting(t) == submitter.request.transfer_id = t

C2_RegisteredBeforeEnqueue ==
    \A t \in TransferIds :
        /\ hist[t].enqueued > 0 => hist[t].registered >= hist[t].enqueued
        /\ (QueuedJobs(t) # {} \/ HeldBy(t) # {}) => hist[t].registered >= 1
        /\ (hist[t].registered # -1 /\ ~Submitting(t))
               => hist[t].enqueued = hist[t].registered
        /\ (Submitting(t) /\ submitter.pc \in {"single_put", "ranged_put"})
               => /\ hist[t].registered = submitter.num_parts
                  /\ hist[t].enqueued = submitter.i
        /\ hist[t].completed <= hist[t].enqueued
        /\ hist[t].completed > 0 => hist[t].registered # -1

\* A worker is about to call notify_job_complete for a transfer while the
\* submitter is still enqueuing that transfer's jobs
C2_Witness ==
    \E w \in Workers :
        /\ workers[w].pc = "complete"
        /\ submitter.pc = "ranged_put"
        /\ Submitting(Tid(w))

\* C3: a transfer is done only if its jobs_to_complete is zero (decremented
\* to zero by the last job, or never registered because the submitter
\* failed first); done never goes back to false; notify_done on a done
\* transfer changes nothing.
C3_DoneState ==
    \A t \in TransferIds :
        transfer_states[t].done =>
            /\ transfer_states[t].jobs_to_complete = 0
            /\ \/ /\ hist[t].registered >= 1
                  /\ hist[t].completed = hist[t].registered
               \/ /\ hist[t].registered = -1
                  /\ hist[t].completed = 0
                  /\ transfer_states[t].exception # None
            /\ notify_done(transfer_states, t) = transfer_states

C3_DoneOnlyAtZero ==
    /\ []C3_DoneState
    /\ [][\A t \in TransferIds :
              transfer_states[t].done => transfer_states'[t].done]_vars

\* A transfer made done by its last worker, with two jobs registered
C3_Witness ==
    \E t \in TransferIds :
        /\ transfer_states[t].done
        /\ hist[t].registered = 2
        /\ hist[t].completed = 2
        /\ transfer_states[t].jobs_to_complete = 0


\* C4 (as claimed): if a failure is recorded for a transfer, whoever
\* recorded it, the temp file is deleted (it is gone once the transfer is
\* done) and is never renamed to the destination path.
C4_FailureDeletesTemp ==
    \A t \in TransferIds :
        transfer_states[t].exception # None =>
            /\ ~files[t].dest
            /\ transfer_states[t].done => ~files[t].temp

\* C5 (as claimed): if a job of a transfer fails permanently, result()
\* raises that job's failure, the destination is never created and the temp
\* file is deleted.
C5_RaisesThatFailure ==
    \A t \in TransferIds :
        (hist[t].failed # None /\ transfer_states[t].done) =>
            /\ poll_for_result(transfer_states, t) =
                   [kind |-> "raised", exception |-> hist[t].failed]
            /\ ~files[t].dest
            /\ ~files[t].temp

\* C5 (amended): if a job of a transfer fails permanently, a failure stays
\* recorded for the transfer from then on and the destination is never
\* created; once the transfer is done result() raises the failure recorded
\* last (a job's failure or the cancellation, never none) and the temp file
\* is deleted.
C5_RaisesLastFailure ==
    \A t \in TransferIds :
        hist[t].failed # None =>
            /\ transfer_states[t].exception.type \in
                   {"ClientError", "RetriesExceededError", "CancelledError"}
            /\ ~files[t].dest
            /\ transfer_states[t].done =>
                   /\ poll_for_result(transfer_states, t) =
                          [kind |-> "raised",
                           exception |-> transfer_states[t].exception]
                   /\ ~files[t].temp

\* A done transfer of two jobs of which one failed permanently and the
\* other's read succeeded
C5_Witness ==
    \E t \in TransferIds :
        /\ hist[t].failed # None
        /\ hist[t].registered = 2
        /\ hist[t].succeeded = 1
        /\ transfer_states[t].done
        /\ transfer_states[t].exception = hist[t].failed

\* C6 (as claimed): if every job of a transfer succeeds, then when the
\* transfer is done the destination exists and the temp file does not.
C6_SuccessRenames ==
    \A t \in TransferIds :
        (/\ transfer_states[t].done
         /\ hist[t].registered >= 1
         /\ hist[t].succeeded = hist[t].registered)
            => files[t].dest /\ ~files[t].temp

\* C6 (amended): if every job of a transfer succeeds, cancel() is not
\* called before the finalizing worker reads the transfer's failure, and
\* the rename does not fail, then when the transfer is done the destination
\* exists and the temp file does not.
C6_SuccessRenamesUnlessFailed ==
    \A t \in TransferIds :
        (/\ transfer_states[t].done
         /\ hist[t].registered >= 1
         /\ hist[t].succeeded = hist[t].registered
         /\ hist[t].cancelled # "early"
         /\ ~hist[t].rename_failed)
            => files[t].dest /\ ~files[t].temp

\* A done transfer of two jobs, both read, whose temp file was renamed
C6_Witness ==
    \E t \in TransferIds :
        /\ transfer_states[t].done
        /\ hist[t].registered = 2
        /\ hist[t].succeeded = 2
        /\ files[t].dest
        /\ ~files[t].temp


\* cancel() was called on transfer t while t was not done
Cancelled(t) == hist[t].cancelled # "no"

ShutdownReturned == caller.pc = "closed"

\* C8 (as claimed): when shutdown() returns, the submitter and every worker
\* have exited, each on the one sentinel put for it (none is left in a
\* queue), no request and no job is left in a queue, and every download
\* requested before shutdown() is done.
C8_ShutdownCompletesAll ==
    ShutdownReturned =>
        /\ submitter.pc = "exited"
        /\ \A w \in Workers : workers[w].pc = "exited"
        /\ download_request_queue = <<>>
        /\ worker_queue = <<>>
        /\ \A t \in Futures : transfer_states[t].done

\* What holds of shutdown() in place of C8: the same, but for the downloads
\* for which the submitter registered no job at all, which are never done
C8_ShutdownCompletesAllWithJobs ==
    ShutdownReturned =>
        /\ submitter.pc = "exited"
        /\ \A w \in Workers : workers[w].pc = "exited"
        /\ download_request_queue = <<>>
        /\ worker_queue = <<>>
        /\ \A t \in Futures :
               transfer_states[t].done \/ hist[t].registered = 0


\* C9: for one job the worker makes at most _MAX_ATTEMPTS range reads.  An
\* attempt that succeeds after retryable failures ends the job with no
\* failure recorded for it; the fifth retryable failure ends it with a
\* RetriesExceededError that wraps that attempt's error, which is recorded
\* with notify_exception, and no attempt follows.
C9_Step(w) ==
    LET a == workers[w]
        b == workers'[w]
        t == a.job.transfer_id
    IN  /\ (a.pc = "attempt" /\ b # a) =>
               /\ a.attempts < _MAX_ATTEMPTS
               /\ transfer_states' = transfer_states
               /\ \/ /\ b.pc = "complete"
                     /\ b.raised = "None"
                     /\ b.exception = None
                     /\ hist'[t].succeeded = hist[t].succeeded + 1
                  \/ /\ b.pc = "attempt"
                     /\ b.raised \in S3_RETRYABLE_DOWNLOAD_ERRORS
                     /\ b.last_exception = b.raised
                     /\ b.attempts = a.attempts + 1
                     /\ b.attempts < _MAX_ATTEMPTS
                  \/ /\ b.pc = "notify_exception"
                     /\ b.raised \in S3_RETRYABLE_DOWNLOAD_ERRORS
                     /\ a.attempts = _MAX_ATTEMPTS - 1
                     /\ b.exception = RetriesExceededError(b.raised)
                  \/ /\ b.pc = "notify_exception"
                     /\ b.raised \notin S3_RETRYABLE_DOWNLOAD_ERRORS
                     /\ b.raised # "None"
                     /\ b.exception = Exc(b.raised, "None")
        /\ (a.pc = "notify_exception" /\ b # a) =>
               /\ transfer_states'[t].exception = a.exception
               /\ b.pc = "complete"
        /\ (a.pc = "complete" /\ b # a) => b.pc \in {"get", "finalize"}

C9_BoundedRetries == [][\A w \in Workers : C9_Step(w)]_vars

\* A worker whose fifth attempt failed with a retryable error is about to
\* record the RetriesExceededError
C9_Witness ==
    \E w \in Workers :
        /\ workers[w].pc = "notify_exception"
        /\ workers[w].exception.type = "RetriesExceededError"
        /\ workers[w].exception.cause = workers[w].raised

\* The extra_args the caller gave download_file for transfer t
CallArgs(t) ==
    (CHOOSE k \in 1 .. Len(futures) : futures[k].transfer_id = t)

\* The jobs of transfer t in the worker queue or in a worker's hands
JobsOf(t) ==
    {worker_queue[k] : k \in QueuedJobs(t)}
        \cup {workers[w].job : w \in HeldBy(t)}

SameDict(d, e) == DOMAIN d = DOMAIN e /\ \A k \in DOMAIN d : d[k] = e[k]

\* C10: for every object size below the multipart threshold the submitter
\* registers 1 job and enqueues exactly one job, at offset 0, whose request
\* options are the caller's extra_args and hold no Range.
C10_SingleJobBelowThreshold ==
    \A t \in TransferIds :
        (hist[t].size # -1 /\ hist[t].size < multipart_threshold) =>
            /\ hist[t].registered \in {-1, 1}
            /\ hist[t].registered = -1 =>
                   Submitting(t) /\ submitter.pc = "single"
            /\ hist[t].enqueued <= 1
            /\ ~Submitting(t) => hist[t].enqueued = 1
            /\ \A job \in JobsOf(t) :
                   /\ job.offset = 0
                   /\ "Range" \notin DOMAIN job.extra_args
                   /\ SameDict(job.extra_args, futures[CallArgs(t)].extra_args)

\* The one job of a download below the threshold is on the worker queue,
\* with the extra_args of the call
C10_Witness ==
    \E t \in TransferIds :
        /\ hist[t].size # -1
        /\ hist[t].size < multipart_threshold
        /\ hist[t].registered = 1
        /\ \E k \in QueuedJobs(t) :
               /\ worker_queue[k].offset = 0
               /\ DOMAIN worker_queue[k].extra_args = {"VersionId"}


\* ceil(size / part_size), by its definition: the least n with
\* n * part_size >= size
Ceil(size, part_size) ==
    CHOOSE n \in 0 .. size : n * part_size >= size /\ (n - 1) * part_size < size

\* client.get_object with a Range on an object of `size` bytes: the bytes of
\* the body (a range is served up to the object's last byte; end = -1 is a
\* range with no upper end)
ServedBytes(range, size) ==
    range.start .. (IF range.end = -1 \/ range.end > size - 1
                    THEN size - 1 ELSE range.end)

\* GetObjectWorker._write_to_file: the body is written from job.offset on;
\* the bytes of the temp file the job writes
WrittenBytes(job, size) ==
    {job.offset + (b - job.extra_args.Range.start) :
         b \in ServedBytes(job.extra_args.Range, size)}

\* The jobs of transfer t, each with where it is: a position of the worker
\* queue or the worker that holds it
PlacedJobs(t) ==
    {[queue |-> k, worker |-> "none", job |-> worker_queue[k]] :
         k \in QueuedJobs(t)}
        \cup {[queue |-> 0, worker |-> w, job |-> workers[w].job] :
                  w \in HeldBy(t)}

\* C11: for every object size >= the multipart threshold, with chunk size C,
\* the submitter registers ceil(size / C) jobs and enqueues exactly that
\* many; the job of part index has offset index * C and reads the bytes
\* from index * C on, so that the offsets are pairwise distinct and the byte
\* ranges written are disjoint; the last part's read ends at byte size - 1
\* and no read goes beyond it.
C11_State ==
    \A t \in TransferIds :
        (hist[t].size # -1 /\ hist[t].size >= multipart_threshold) =>
            LET size == hist[t].size
                C == multipart_chunksize
                n == Ceil(size, C)
            IN  /\ hist[t].registered \in {-1, n}
                /\ hist[t].registered = -1 =>
                       Submitting(t) /\ submitter.pc = "ranged"
                /\ hist[t].enqueued <= n
                /\ ~Submitting(t) => hist[t].enqueued = n
                /\ \A p \in PlacedJobs(t) :
                       LET job == p.job
                           index == job.offset \div C
                           last == IF (index + 1) * C < size
                                   THEN (index + 1) * C - 1 ELSE size - 1
                       IN  /\ "Range" \in DOMAIN job.extra_args
                           /\ job.offset = index * C
                           /\ index \in 0 .. (n - 1)
                           /\ job.extra_args.Range.start = job.offset
                           /\ ServedBytes(job.extra_args.Range, size) =
                                  job.offset .. last
                           /\ WrittenBytes(job, size) = job.offset .. last
                           /\ index = n - 1 => last = size - 1
                /\ \A p, q \in PlacedJobs(t) :
                       (p.queue # q.queue \/ p.worker # q.worker) =>
                           /\ p.job.offset # q.job.offset
                           /\ WrittenBytes(p.job, size)
                                  \cap WrittenBytes(q.job, size) = {}

\* Each put of a ranged download adds the job of the next part index
C11_Step ==
    (submitter.pc = "ranged_put" /\ submitter' # submitter) =>
        LET t == submitter.request.transfer_id
        IN  /\ Len(worker_queue') = Len(worker_queue) + 1
            /\ worker_queue'[Len(worker_queue')].offset =
                   hist[t].enqueued * multipart_chunksize
            /\ hist'[t].enqueued = hist[t].enqueued + 1

QueuedRequests ==
    {k \in 1 .. Len(download_request_queue) :
         download_request_queue[k] # SHUTDOWN_SIGNAL}

\* C12: download_file called with an extra_args key outside the allow-list
\* raises synchronously and leaves the request queue and the transfer id
\* counter unchanged: no request of such a call is ever in the request queue
\* or with the submitter, and no future is returned for it.
C12_State ==
    /\ \A k \in QueuedRequests :
           DOMAIN download_request_queue[k].extra_args
               \subseteq ALLOWED_DOWNLOAD_ARGS
    /\ DOMAIN submitter.request.extra_args \subseteq ALLOWED_DOWNLOAD_ARGS
    /\ \A k \in 1 .. Len(futures) :
           DOMAIN futures[k].extra_args \subseteq ALLOWED_DOWNLOAD_ARGS
    /\ Len(futures) = id_counter

\* The step on which a download_file call raises ValueError
C12_Step ==
    (caller.raised # "ValueError" /\ caller'.raised = "ValueError") =>
        /\ download_request_queue' = download_request_queue
        /\ id_counter' = id_counter
        /\ futures' = futures
        /\ transfer_states' = transfer_states

C12_InvalidArgsRejected == []C12_State /\ [][C12_Step]_vars

\* A first download_file call has raised ValueError: the processes are
\* started, the request queue is empty, no id is used and no future exists
C12_Witness ==
    /\ caller.raised = "ValueError"
    /\ started
    /\ submitter.pc = "get"
    /\ download_request_queue = <<>>
    /\ id_counter = 0
    /\ futures = <<>>


\* C13: when resolving the size or allocating the temp file fails for a
\* request, the submitter records the failure with notify_exception and then
\* marks the transfer done, with no job count registered and no job
\* enqueued for it; the submitter does not exit: it is back at the head of
\* its loop, as when it was started, and takes the next entry of the queue.
C13_State ==
    /\ submitter.exception # None <=>
           submitter.pc \in {"notify_exception", "notify_done"}
    /\ submitter.pc \in {"notify_exception", "notify_done"} =>
           LET t == submitter.request.transfer_id
           IN  /\ hist[t].registered = -1
               /\ hist[t].enqueued = 0
               /\ transfer_states[t].jobs_to_complete = 0
               /\ PlacedJobs(t) = {}
               /\ ~transfer_states[t].done
               /\ ~files[t].temp
               /\ submitter.pc = "notify_done" =>
                      transfer_states[t].exception # None
    /\ \A t \in TransferIds :
           (transfer_states[t].done /\ hist[t].registered = -1) =>
               /\ transfer_states[t].exception # None
               /\ hist[t].enqueued = 0
               /\ hist[t].completed = 0
               /\ PlacedJobs(t) = {}
               /\ ~Submitting(t)

C13_Step ==
    LET t == submitter.request.transfer_id
    IN  /\ (submitter.pc = "submit" /\ submitter'.pc = "notify_exception") =>
               /\ submitter'.exception # None
               /\ transfer_states' = transfer_states
               /\ worker_queue' = worker_queue
               /\ hist' = hist
        /\ (submitter.pc = "notify_exception" /\ submitter' # submitter) =>
               /\ transfer_states' =
                      [transfer_states EXCEPT
                           ![t].exception = submitter.exception]
               /\ submitter'.pc = "notify_done"
               /\ worker_queue' = worker_queue
               /\ hist' = hist
        /\ (submitter.pc = "notify_done" /\ submitter' # submitter) =>
               /\ transfer_states' =
                      [transfer_states EXCEPT ![t].done = TRUE]
               /\ submitter' = StartedSubmitter
               /\ worker_queue' = worker_queue
               /\ download_request_queue' = download_request_queue
               /\ hist' = hist
        /\ (submitter.pc = "get" /\ download_request_queue # <<>>) =>
               ENABLED SubmitterGet

ResultEnds == caller'.result # caller.result

\* C14 (as claimed): result() never returns or raises while the transfer's
\* done flag is false; once done is observed it raises the recorded failure
\* if one is recorded and returns None only if none is recorded.
C14_Step ==
    ResultEnds =>
        LET r == caller'.result
            t == r.transfer_id
        IN  /\ transfer_states[t].done
            /\ r.kind = "raised" =>
                   /\ transfer_states[t].exception # None
                   /\ r.exception = transfer_states[t].exception
            /\ r.kind = "returned" => transfer_states[t].exception = None
            /\ r.kind \in {"raised", "returned"}

C14_ResultOnlyWhenDone == [][C14_Step]_vars

\* C14 (amended): result() never returns while the transfer's done flag is
\* false, and raises while it is false only when its wait is interrupted by
\* KeyboardInterrupt: it then records the cancellation for the transfer and
\* raises the KeyboardInterrupt.  Otherwise, once done is observed, it
\* raises the recorded failure if one is recorded and returns None only if
\* none is recorded.
C14_StepOrInterrupt ==
    ResultEnds =>
        LET r == caller'.result
            t == r.transfer_id
        IN  \/ /\ r.kind = "raised"
               /\ r.exception = KeyboardInterrupt
               /\ transfer_states'[t].exception = CancelledError
            \/ /\ r.kind = "raised"
               /\ transfer_states[t].done
               /\ transfer_states[t].exception # None
               /\ r.exception = transfer_states[t].exception
               /\ transfer_states' = transfer_states
            \/ /\ r.kind = "returned"
               /\ transfer_states[t].done
               /\ transfer_states[t].exception = None
               /\ transfer_states' = transfer_states

C14_ResultWhenDoneOrInterrupted == [][C14_StepOrInterrupt]_vars

\* result() returned None for a download that is done with nothing recorded
C14_Witness ==
    /\ caller.result.kind = "returned"
    /\ transfer_states[caller.result.transfer_id].done
    /\ transfer_states[caller.result.transfer_id].exception = None
    /\ files[caller.result.transfer_id].dest


\* ------------------------------------------- the TransferMonitor's manager
\* The TransferMonitor lives in the manager's server process, which serves
\* every connection in a thread of its own: the calls of the caller, of the
\* submitter and of a worker run in three threads.  A thread can be
\* switched out wherever it runs Python code: between looking a key up in
\* _transfer_states and using what it got, and, when the key is missing, in
\* TransferState.__init__, which defaultdict calls before it stores the new
\* object under the key.  In SpecMonitor transfer_states is what the same
\* calls give when each is one step.

\* TransferState.exception (setter)
set_exception(state, val) == [state EXCEPT !.exception = val]

\* TransferState.jobs_to_complete (setter)
set_jobs_to_complete(state, val) == [state EXCEPT !.jobs_to_complete = val]

\* self._transfer_states[transfer_id], read without creating it
MonitorState(t) ==
    IF manager.table[t] = 0
    THEN TransferState
    ELSE manager.objects[manager.table[t]]

Thread(c) == manager.threads[c]

Call(op, exception, num_jobs) ==
    [op |-> op, exception |-> exception, num_jobs |-> num_jobs]

\* The calls process c can make next for transfer t: the caller holds the
\* future of t; the submitter registers a count or fails, once; a worker
\* has a job of t only when the count is registered
CallsOf(c, t) ==
    IF c = "caller"
    THEN {Call("is_done", None, 0), Call("poll_for_result", None, 0),
          Call("notify_exception", CancelledError, 0)}
    ELSE IF c = "submitter"
    THEN IF manager.phase[t] = "new"
         THEN {Call("notify_expected_jobs_to_complete", None, n) :
                   n \in 1 .. MaxSize}
                  \cup {Call("notify_exception", ClientError, 0)}
         ELSE IF manager.phase[t] = "failed"
         THEN {Call("notify_done", None, 0)}
         ELSE {}
    ELSE IF manager.phase[t] # "registered"
    THEN {}
    ELSE {Call("get_exception", None, 0),
          Call("notify_exception", ClientError, 0)}
             \cup (IF transfer_states[t].jobs_to_complete > 0
                   THEN {Call("notify_job_complete", None, 0)}
                   ELSE {Call("notify_done", None, 0)})

\* A process calls the monitor: its thread in the manager starts the method
MonitorCall(c) ==
    /\ Thread(c).pc = "idle"
    /\ \E t \in TransferIds :
           \E call \in CallsOf(c, t) :
               manager' =
                   [manager EXCEPT
                        !.threads[c] =
                            [IdleThread EXCEPT
                                 !.pc = "lookup", !.op = call.op,
                                 !.transfer_id = t,
                                 !.exception = call.exception,
                                 !.num_jobs = call.num_jobs]]
    /\ UNCHANGED <<config, callers, started, id_counter, download_request_queue,
                   worker_queue, transfer_states, futures, caller, submitter,
                   workers, files, hist>>

\* Where a thread goes once it has the TransferState: poll_for_result first
\* waits on it, every other method uses it
AfterLookup(thread) ==
    IF thread.op = "poll_for_result" /\ ~thread.second THEN "wait" ELSE "apply"

\* self._transfer_states[transfer_id]: the object under the key, or, when
\* the key is missing, defaultdict's __missing__ is entered
MonitorLookup(c) ==
    /\ Thread(c).pc = "lookup"
    /\ manager' =
           IF manager.table[Thread(c).transfer_id] # 0
           THEN [manager EXCEPT
                     !.threads[c].ref = manager.table[Thread(c).transfer_id],
                     !.threads[c].pc = AfterLookup(Thread(c))]
           ELSE [manager EXCEPT !.threads[c].pc = "missing"]
    /\ UNCHANGED <<config, callers, started, id_counter, download_request_queue,
                   worker_queue, transfer_states, futures, caller, submitter,
                   workers, files, hist>>

\* defaultdict.__missing__: TransferState() has been made; it is stored
\* under the key, whatever is there, and handed to the method
MonitorMissing(c) ==
    /\ Thread(c).pc = "missing"
    /\ manager' =
           [manager EXCEPT
                !.objects = Append(manager.objects, TransferState),
                !.table[Thread(c).transfer_id] = Len(manager.objects) + 1,
                !.made[Thread(c).transfer_id] = @ + 1,
                !.threads[c].ref = Len(manager.objects) + 1,
                !.threads[c].pc = AfterLookup(Thread(c))]
    /\ UNCHANGED <<config, callers, started, id_counter, download_request_queue,
                   worker_queue, transfer_states, futures, caller, submitter,
                   workers, files, hist>>

\* poll_for_result: wait_till_done returns when the object's event is set;
\* then self._transfer_states[transfer_id] is looked up again
MonitorWait(c) ==
    /\ Thread(c).pc = "wait"
    /\ manager.objects[Thread(c).ref].done
    /\ manager' = [manager EXCEPT !.threads[c].pc = "lookup",
                                  !.threads[c].second = TRUE]
    /\ UNCHANGED <<config, callers, started, id_counter, download_request_queue,
                   worker_queue, transfer_states, futures, caller, submitter,
                   workers, files, hist>>

\* What the method does to the TransferState object it holds
OnObject(thread, state) ==
    CASE thread.op = "notify_done" -> set_done(state)
      [] thread.op = "notify_exception" -> set_exception(state, thread.exception)
      [] thread.op = "notify_expected_jobs_to_complete" ->
             set_jobs_to_complete(state, thread.num_jobs)
      [] thread.op = "notify_job_complete" -> decrement_jobs_to_complete(state)
      [] OTHER -> state

\* What the same call does when it is one step
AsOneStep(thread, ts) ==
    CASE thread.op = "notify_done" -> notify_done(ts, thread.transfer_id)
      [] thread.op = "notify_exception" ->
             notify_exception(ts, thread.transfer_id, thread.exception)
      [] thread.op = "notify_expected_jobs_to_complete" ->
             notify_expected_jobs_to_complete(ts, thread.transfer_id,
                                              thread.num_jobs)
      [] thread.op = "notify_job_complete" ->
             notify_job_complete(ts, thread.transfer_id)
      [] OTHER -> ts

\* What the submitter has done for the transfer once its call has returned
PhaseAfter(c, thread, phase) ==
    IF c # "submitter" THEN phase
    ELSE IF thread.op = "notify_expected_jobs_to_complete" THEN "registered"
    ELSE IF thread.op = "notify_exception" THEN "failed"
    ELSE "closed"

\* The method acts on the object it holds and returns
MonitorApply(c) ==
    /\ Thread(c).pc = "apply"
    /\ manager' =
           [manager EXCEPT
                !.objects[Thread(c).ref] = OnObject(Thread(c), @),
                !.phase[Thread(c).transfer_id] = PhaseAfter(c, Thread(c), @),
                !.threads[c] = IdleThread]
    /\ transfer_states' = AsOneStep(Thread(c), transfer_states)
    /\ UNCHANGED <<config, callers, started, id_counter, download_request_queue,
                   worker_queue, futures, caller, submitter, workers, files,
                   hist>>

NextMonitor ==
    \E c \in MonitorClients :
        \/ MonitorCall(c)
        \/ MonitorLookup(c)
        \/ MonitorMissing(c)
        \/ MonitorWait(c)
        \/ MonitorApply(c)

SpecMonitor == Init /\ [][NextMonitor]_vars

\* No call on the monitor is being served
Quiescent == \A c \in MonitorClients : Thread(c).pc = "idle"

\* C15 (as claimed): each monitor operation is atomic with respect to every
\* other on the same transfer id, also when two processes make the first
\* reference to an id at the same time: no update is lost, so that whenever
\* no call is being served the state the monitor holds for an id is the one
\* the calls made so far give when each is one step.
C15_MonitorCallsAtomic ==
    \A t \in TransferIds : Quiescent => MonitorState(t) = transfer_states[t]

\* What holds in place of C15: no update is lost for an id whose
\* TransferState was made once
C15_AtomicOnceCreated ==
    \A t \in TransferIds :
        (Quiescent /\ manager.made[t] <= 1) =>
            MonitorState(t) = transfer_states[t]


\* ------------------------------------------- download_file in two threads
\* download_file reads and writes _id_counter with no lock (_start_lock is
\* held in _start_if_needed only): a thread can be switched out between the
\* put of the request, the read of _id_counter in _get_transfer_future and
\* the two halves of `_id_counter += 1`.

\* download_file is called: _start_if_needed (under _start_lock) and
\* _validate_all_known_args, which returns
DownloadFileCalled(c) ==
    /\ callers[c].pc = "idle"
    /\ callers[c].calls < MaxCalls
    /\ \E extra_args \in ExtraArgsChoices :
           /\ _validate_all_known_args(extra_args)
           /\ callers' = [callers EXCEPT ![c].pc = "put",
                                         ![c].extra_args = extra_args]
    /\ started' = TRUE
    /\ submitter' = IF started THEN submitter ELSE StartedSubmitter
    /\ workers' = IF started THEN workers ELSE [w \in Workers |-> StartedWorker]
    /\ UNCHANGED <<config, manager, id_counter, download_request_queue,
                   worker_queue, transfer_states, futures, caller, files, hist>>

\* The request is made with transfer_id = self._id_counter and put
DownloadFilePut(c) ==
    /\ callers[c].pc = "put"
    /\ Len(download_request_queue) < queue_maxsize
    /\ download_request_queue' =
           Append(download_request_queue,
                  DownloadFileRequest(id_counter, callers[c].extra_args, -1))
    /\ callers' = [callers EXCEPT ![c].pc = "get_transfer_future",
                                  ![c].request_id = id_counter]
    /\ UNCHANGED <<config, manager, started, id_counter, worker_queue,
                   transfer_states, futures, caller, submitter, workers,
                   files, hist>>

\* _get_transfer_future: transfer_id = self._id_counter, and the future is
\* made for it
DownloadFileGetTransferFuture(c) ==
    /\ callers[c].pc = "get_transfer_future"
    /\ callers' = [callers EXCEPT ![c].pc = "load",
                                  ![c].transfer_id = id_counter]
    /\ UNCHANGED <<config, manager, started, id_counter, download_request_queue,
                   worker_queue, transfer_states, futures, caller, submitter,
                   workers, files, hist>>

\* self._id_counter += 1: the counter is read ...
DownloadFileLoad(c) ==
    /\ callers[c].pc = "load"
    /\ callers' = [callers EXCEPT ![c].pc = "store", ![c].loaded = id_counter]
    /\ UNCHANGED <<config, manager, started, id_counter, download_request_queue,
                   worker_queue, transfer_states, futures, caller, submitter,
                   workers, files, hist>>

\* ... and what was read, plus one, is written; the future is returned
DownloadFileStore(c) ==
    /\ callers[c].pc = "store"
    /\ id_counter' = callers[c].loaded + 1
    /\ futures' = Append(futures,
                          ProcessPoolTransferFuture(callers[c].transfer_id,
                                                    callers[c].extra_args, -1))
    /\ callers' =
           [callers EXCEPT
                ![c] = [IdleCaller EXCEPT
                            !.calls = callers[c].calls + 1,
                            !.returned =
                                Append(callers[c].returned,
                                       [request_id |-> callers[c].request_id,
                                        transfer_id |-> callers[c].transfer_id])]]
    /\ UNCHANGED <<config, manager, started, download_request_queue,
                   worker_queue, transfer_states, caller, submitter, workers,
                   files, hist>>

NextCallers ==
    \E c \in CallerThreads :
        \/ DownloadFileCalled(c)
        \/ DownloadFilePut(c)
        \/ DownloadFileGetTransferFuture(c)
        \/ DownloadFileLoad(c)
        \/ DownloadFileStore(c)

SpecCallers == Init /\ [][NextCallers]_vars

\* No two requests in the request queue have the same transfer_id, no two
\* futures have, and every call returned the future of the id of the
\* request it put
UniqueIds ==
    /\ \A j, k \in QueuedRequests :
           j # k => download_request_queue[j].transfer_id
                        # download_request_queue[k].transfer_id
    /\ \A j, k \in 1 .. Len(futures) :
           j # k => futures[j].transfer_id # futures[k].transfer_id
    /\ \A c \in CallerThreads :
           \A k \in 1 .. Len(callers[c].returned) :
               callers[c].returned[k].request_id
                   = callers[c].returned[k].transfer_id

\* C16 (as claimed): transfer ids are unique: no two download_file calls
\* enqueue requests with the same transfer_id, and the future a call
\* returns carries the transfer_id of the request that call enqueued, also
\* when download_file is called from several threads at the same time.
C16_UniqueTransferIds == UniqueIds

\* What holds in place of C16: the same, as long as one thread only has
\* called download_file
C16_UniqueTransferIdsOneThread ==
    (\E c \in CallerThreads :
         \A d \in CallerThreads \ {c} :
             callers[d].pc = "idle" /\ callers[d].calls = 0)
        => UniqueIds


\* ---------------------------------------------------------- the full queues
\* The downloader with queues that fill up, and with processes that go on
\* running: the submitter and each worker take their next step when they
\* can, and a caller that is in shutdown() goes on with it.  The caller
\* makes the calls that put something on a queue: download_file and
\* shutdown().
InitQueues == InitWith(MaxQueued)

SubmitterStep ==
    \/ SubmitterGet
    \/ SubmitterResolve
    \/ SubmitterResolveFails
    \/ SubmitterNotifyException
    \/ SubmitterNotifyDone
    \/ SubmitterRegister
    \/ SubmitterPut

WorkerStep(w) ==
    \/ WorkerGet(w)
    \/ WorkerCheck(w)
    \/ WorkerAttempt(w)
    \/ WorkerNotifyException(w)
    \/ WorkerComplete(w)
    \/ WorkerFinalize(w)
    \/ WorkerRemove(w)
    \/ WorkerRename(w)
    \/ WorkerRenameFails(w)
    \/ WorkerRenameException(w)
    \/ WorkerNotifyDone(w)

ShutdownStep ==
    \/ _shutdown_submitter_join
    \/ _shutdown_get_object_workers_put
    \/ _shutdown_get_object_workers_join
    \/ _shutdown_transfer_monitor_manager

NextQueues ==
    \/ \E expected_size \in Sizes \cup {-1} :
           download_file(NoArgs, expected_size)
    \/ _shutdown_submitter_put
    \/ ShutdownStep
    \/ SubmitterStep
    \/ \E w \in Workers : WorkerStep(w)

SpecQueues ==
    /\ InitQueues
    /\ [][NextQueues]_vars
    /\ WF_vars(SubmitterStep)
    /\ \A w \in Workers : WF_vars(WorkerStep(w))
    /\ WF_vars(ShutdownStep)

\* The submitter is in _submit_get_object_job's put and the worker queue is
\* full
SubmitterBlocked ==
    /\ submitter.pc \in {"single_put", "ranged_put"}
    /\ Len(worker_queue) = queue_maxsize

\* The caller is in _shutdown_get_object_workers' put and the worker queue
\* is full
ShutdownBlocked ==
    /\ caller.pc = "put_workers"
    /\ caller.i < Cardinality(Workers)
    /\ Len(worker_queue) = queue_maxsize

\* The request queue is full while the caller can call download_file or
\* shutdown(): the put of either blocks
CallerBlocked ==
    /\ caller.pc = "open"
    /\ Len(download_request_queue) = queue_maxsize

\* C17: the request queue and the worker queue never hold more entries than
\* their capacity: a producer blocks on a full queue; and whenever a
\* producer is blocked on a full queue, a consumer eventually removes an
\* entry and the producer proceeds (the submitter's job is put, the
\* caller's sentinel is put, the request queue has room for the caller's
\* put).
C17_Bounded ==
    /\ Len(download_request_queue) <= queue_maxsize
    /\ Len(worker_queue) <= queue_maxsize

C17_QueuesBoundedNoDeadlock ==
    /\ []C17_Bounded
    /\ SubmitterBlocked
           ~> (/\ submitter.pc \in {"single_put", "ranged_put"}
               /\ Len(worker_queue) < queue_maxsize)
    /\ (submitter.pc \in {"single_put", "ranged_put"})
           ~> (submitter.pc = "get")
    /\ ShutdownBlocked
           ~> (/\ caller.pc = "put_workers"
               /\ Len(worker_queue) < queue_maxsize)
    /\ (caller.pc = "put_workers")
           ~> (caller.pc = "put_workers" /\ caller.i = Cardinality(Workers))
    /\ CallerBlocked ~> (Len(download_request_queue) < queue_maxsize)

\* The submitter is blocked on the full worker queue with a part still to
\* put, while the caller waits in shutdown() for the submitter to end
C17_Witness ==
    /\ SubmitterBlocked
    /\ submitter.pc = "ranged_put"
    /\ submitter.i = 1
    /\ Len(worker_queue) = MaxQueued
    /\ caller.pc = "join_submitter"


\* The workers that have taken a job of transfer t and have not yet called
\* notify_job_complete for it
Running(t) ==
    {w \in Workers :
         /\ Tid(w) = t
         /\ workers[w].pc \in {"check", "attempt", "notify_exception",
                               "complete"}}

\* C18: every job a worker takes from the worker queue results in exactly
\* one notify_job_complete for its transfer, whether the job's read
\* succeeded, failed or was skipped; and a worker makes no range read for a
\* job when a failure is recorded for the transfer at the time it checks.
C18_State ==
    \A t \in TransferIds :
        hist[t].enqueued =
            Cardinality(QueuedJobs(t)) + Cardinality(Running(t))
                + hist[t].completed

C18_Step(w) ==
    LET a == workers[w]
        b == workers'[w]
        t == a.job.transfer_id
    IN  (a.job # NoJob /\ b # a) =>
            /\ a.pc = "check" =>
                   IF get_exception(transfer_states, t) # None
                   THEN b.pc = "complete" /\ b.job = a.job /\ hist' = hist
                   ELSE b.pc = "attempt" /\ b.job = a.job
            /\ a.pc = "complete" =>
                   /\ hist'[t].completed = hist[t].completed + 1
                   /\ transfer_states'[t].jobs_to_complete =
                          transfer_states[t].jobs_to_complete - 1
                   /\ b.pc \in {"get", "finalize"}
            /\ a.pc # "complete" =>
                   /\ hist'[t].completed = hist[t].completed
                   /\ transfer_states'[t].jobs_to_complete =
                          transfer_states[t].jobs_to_complete
            /\ a.pc \in {"check", "attempt", "notify_exception"} =>
                   b.pc \in {"attempt", "notify_exception", "complete"}

C18_OneCompletePerJob ==
    []C18_State /\ [][\A w \in Workers : C18_Step(w)]_vars

\* Both jobs of a cancelled download were taken and skipped, and both were
\* counted
C18_Witness ==
    \E t \in TransferIds :
        /\ hist[t].registered = 2
        /\ hist[t].completed = 2
        /\ hist[t].succeeded = 0
        /\ hist[t].failed = None
        /\ transfer_states[t].exception = CancelledError
        /\ transfer_states[t].jobs_to_complete = 0


\* The notify_exception call made on this step, if one is made: who makes
\* it, for which transfer and with which exception (the caller's are those
\* of cancel(), in which no process takes a step)
Notified ==
    (IF submitter.pc = "notify_exception" /\ submitter' # submitter
     THEN {[by |-> "submitter",
            transfer_id |-> submitter.request.transfer_id,
            exception |-> submitter.exception]}
     ELSE {})
        \cup {[by |-> w, transfer_id |-> Tid(w),
               exception |-> workers[w].exception] :
                  w \in {v \in Workers :
                             /\ workers[v].pc \in {"notify_exception",
                                                   "rename_exception"}
                             /\ workers'[v] # workers[v]}}
        \cup {[by |-> "caller", transfer_id |-> t,
               exception |-> CancelledError] :
                  t \in {u \in TransferIds :
                             /\ submitter' = submitter
                             /\ workers' = workers
                             /\ \/ transfer_states'[u] # transfer_states[u]
                                \/ hist'[u] # hist[u]}}

\* C19: notify_exception overwrites any failure recorded before: after a
\* notify_exception call for a transfer, get_exception gives the failure of
\* that call, whatever was recorded; the recorded failure changes on no
\* other step; and once a failure is recorded get_exception never gives
\* none again.
C19_Step ==
    /\ \A n \in Notified :
           /\ n.exception # None
           /\ get_exception(transfer_states', n.transfer_id) = n.exception
    /\ \A t \in TransferIds :
           /\ get_exception(transfer_states, t) # None
                  => get_exception(transfer_states', t) # None
           /\ get_exception(transfer_states', t)
                  # get_exception(transfer_states, t)
                  => \E n \in Notified : n.transfer_id = t

C20_State ==
    \A w \in Workers :
        (/\ workers[w].pc = "notify_exception"
         /\ workers[w].raised \notin S3_RETRYABLE_DOWNLOAD_ERRORS) =>
            /\ workers[w].raised # "None"
            /\ workers[w].exception = Exc(workers[w].raised, "None")

C20_Step(w) ==
    LET a == workers[w]
        b == workers'[w]
        t == a.job.transfer_id
    IN  /\ (/\ a.pc = "attempt"
            /\ b # a
            /\ b.raised # "None"
            /\ b.raised \notin S3_RETRYABLE_DOWNLOAD_ERRORS) =>
               /\ b.pc = "notify_exception"
               /\ b.exception = Exc(b.raised, "None")
               /\ b.exception.type # "RetriesExceededError"
               /\ b.job = a.job
               /\ hist' = hist
               /\ transfer_states' = transfer_states
        /\ (a.pc = "notify_exception" /\ b # a) =>
               /\ get_exception(transfer_states', t) = a.exception
               /\ b.pc = "complete"
               /\ b.job = a.job
        /\ (a.pc = "complete" /\ b # a) =>
               /\ b.pc # "attempt"
               /\ b.job = NoJob \/ b.pc = "finalize"

C20_NonRetryableRecordedAtOnce ==
    []C20_State /\ [][\A w \in Workers : C20_Step(w)]_vars

\* A worker has recorded the ClientError of a read as the failure of its
\* transfer and is about to call notify_job_complete
C20_Witness ==
    \E w \in Workers :
        /\ workers[w].pc = "complete"
        /\ workers[w].exception = ClientError
        /\ get_exception(transfer_states, Tid(w)) = ClientError
        /\ hist[Tid(w)].failed = ClientError
        /\ hist[Tid(w)].succeeded = 0


\* ------------------------------------------------- the processes keep going
\* The downloader while it is open, with a submitter and workers that go on
\* running: each takes its next step when it can.  The caller asks for
\* downloads, cancels them and asks for their results.
NextLive ==
    \/ \E extra_args \in ExtraArgsChoices, expected_size \in Sizes \cup {-1} :
           download_file(extra_args, expected_size)
    \/ \E t \in TransferIds : cancel(t)
    \/ \E t \in TransferIds : result(t)
    \/ \E t \in TransferIds : result_interrupted(t)
    \/ SubmitterStep
    \/ \E w \in Workers : WorkerStep(w)

SpecLive ==
    /\ Init
    /\ [][NextLive]_vars
    /\ WF_vars(SubmitterStep)
    /\ \A w \in Workers : WF_vars(WorkerStep(w))

\* download_file has returned a future for transfer t
Accepted(t) == t \in Futures

\* A result() call on transfer t does not block in poll_for_result
Released(t) == poll_for_result(transfer_states, t).kind # "blocked"

\* C21 (as claimed): every download request that download_file accepted
\* is eventually done, whatever the size of the object and the configured
\* threshold and chunk size, when the submitter and the workers keep taking
\* steps; so a caller blocked in result() is eventually released.
C21_EveryRequestDone ==
    \A t \in TransferIds :
        Accepted(t) ~> (is_done(transfer_states, t) /\ Released(t))

\* What holds in place of C21: an accepted request is eventually done, or
\* the submitter has registered no job at all for it (and then nothing
\* ever marks it done)
C21_EveryRequestWithJobsDone ==
    /\ \A t \in TransferIds :
           Accepted(t) ~> \/ is_done(transfer_states, t) /\ Released(t)
                          \/ hist[t].registered = 0
    /\ [](\A t \in TransferIds :
              hist[t].registered = 0 =>
                  /\ ~is_done(transfer_states, t)
                  /\ hist[t].size = 0
                  /\ multipart_threshold = 0)

\* The submitter has gone on to the next request after it registered no
\* job for a download of an empty object, which is not done
C21_Witness ==
    \E t \in TransferIds :
        /\ Accepted(t)
        /\ hist[t].registered = 0
        /\ hist[t].size = 0
        /\ multipart_threshold = 0
        /\ submitter.pc = "get"
        /\ worker_queue = <<>>
        /\ \A w \in Workers : workers[w].pc = "get"
        /\ ~is_done(transfer_states, t)


\* The count the submitter has registered for transfer t (none yet: the
\* TransferState starts with 0 jobs to complete)
RegisteredJobs(t) == IF hist[t].registered = -1 THEN 0 ELSE hist[t].registered

\* C22: in every state and for every transfer, jobs_to_complete is between
\* 0 and the registered count, never negative, and is the registered count
\* minus the number of the transfer's jobs for which a worker has called
\* notify_job_complete (the jobs put on the worker queue that are no longer
\* in it nor with a worker that has yet to call it).  It changes when the
\* submitter registers the count, once, and by one at each
\* notify_job_complete.
C22_State ==
    \A t \in TransferIds :
        LET remaining == transfer_states[t].jobs_to_complete
            gone == hist[t].enqueued - Cardinality(QueuedJobs(t))
                        - Cardinality(Running(t))
        IN  /\ 0 <= remaining
            /\ remaining <= RegisteredJobs(t)
            /\ remaining = RegisteredJobs(t) - hist[t].completed
            /\ remaining = RegisteredJobs(t) - gone
            /\ hist[t].enqueued <= RegisteredJobs(t)

C22_Step ==
    \A t \in TransferIds :
        LET a == transfer_states[t].jobs_to_complete
            b == transfer_states'[t].jobs_to_complete
        IN  b # a =>
                \/ /\ submitter.pc \in {"single", "ranged"}
                   /\ submitter' # submitter
                   /\ Submitting(t)
                   /\ hist[t].registered = -1
                   /\ b = hist'[t].registered
                   /\ a = 0
                \/ /\ \E w \in Running(t) :
                          /\ workers[w].pc = "complete"
                          /\ workers'[w] # workers[w]
                   /\ b = a - 1

AgreesWithFiles(t) ==
    poll_for_result(transfer_states, t).kind = "raised" <=> ~files[t].dest

\* C23 (as claimed): once a transfer is done its outcome is stable: the
\* recorded failure, or its absence, no longer changes, so every later
\* result() gives what the first one gave whatever the caller does after
\* (cancel() included), and that outcome agrees with the file system:
\* result() raises exactly when the destination was not created.
C23_OutcomeStable ==
    /\ [][\A t \in TransferIds :
              is_done(transfer_states, t) =>
                  /\ get_exception(transfer_states', t) =
                         get_exception(transfer_states, t)
                  /\ poll_for_result(transfer_states', t) =
                         poll_for_result(transfer_states, t)]_vars
    /\ [](\A t \in TransferIds :
              is_done(transfer_states, t) => AgreesWithFiles(t))

\* What holds in place of C23: once a transfer is done it stays done, its
\* files no longer change, and its recorded failure changes only by a
\* cancel() of the caller, which records the cancellation whatever the
\* outcome was; as long as the failure recorded is not the cancellation,
\* result() raises exactly when the destination was not created.
C23_StableButForCancel ==
    /\ [][\A t \in TransferIds :
              is_done(transfer_states, t) =>
                  /\ is_done(transfer_states', t)
                  /\ files'[t] = files[t]
                  /\ get_exception(transfer_states', t) #
                         get_exception(transfer_states, t) =>
                         /\ get_exception(transfer_states', t) = CancelledError
                         /\ submitter' = submitter
                         /\ workers' = workers]_vars
    /\ [](\A t \in TransferIds :
              (/\ is_done(transfer_states, t)
               /\ get_exception(transfer_states, t) # CancelledError)
                  => AgreesWithFiles(t))

\* result() returned for a download whose file is in place, cancel() was
\* called after that, and result() now raises the cancellation
C23_Witness ==
    \E t \in TransferIds :
        /\ is_done(transfer_states, t)
        /\ caller.result = Result(t, "returned", None)
        /\ hist[t].cancelled = "no"
        /\ files[t].dest
        /\ poll_for_result(transfer_states, t) =
               [kind |-> "raised", exception |-> CancelledError]


\* shutdown() has ended in an exception raised to the caller
ShutdownRaised == caller.pc = "error"

\* C24 (as claimed): shutdown(), and so leaving the downloader's
\* with-block, completes without error in every state of the downloader,
\* also when no download was ever requested and the manager, the submitter
\* and the workers were never started.
C24_ShutdownNoError == ~ShutdownRaised

\* What holds in place of C24: shutdown() raises only on a downloader that
\* was never started, after it has put the sentinel on the request queue;
\* on a started downloader each step of shutdown() goes on to the next and
\* none raises.
C24_ShutdownNoErrorOnceStarted ==
    /\ [](ShutdownRaised =>
              /\ ~started
              /\ futures = <<>>
              /\ submitter = IdleSubmitter
              /\ download_request_queue = <<SHUTDOWN_SIGNAL>>)
    /\ [][started => ~ShutdownRaised']_vars

====
